---- MODULE Spec2Model ----
(***************************************************************************)
(* Model of src/research_streamlit_app.py: the response parser             *)
(* (ResearchAssistant.parse_json_response), the aggregation pipeline       *)
(* (ResearchAssistant.generate_research_content) and the session handling  *)
(* of main().                                                              *)
(*                                                                         *)
(* Text is a sequence of one-element strings.  Fence markers, braces,     *)
(* commas, blanks and prose are single characters; a JSON member          *)
(* ("key": value) is one indivisible unit, named in the table Members.    *)
(* Python values are tagged records [kind, items]: a str, a list, or a    *)
(* number (which has no length and cannot be iterated).                   *)
(***************************************************************************)
EXTENDS Integers, Sequences, FiniteSets, TLC

\* ------------------------------------------------------------------ bounds

\* longest free-form body of a raw text handed to the parser
MaxBodyLen == 4

\* ------------------------------------------------------- Python values

PyStr(items) == [kind |-> "str", items |-> items]
PyList(items) == [kind |-> "list", items |-> items]
PyNum == [kind |-> "num", items |-> <<>>]
None == [kind |-> "none", items |-> <<>>]

\* bool(v): None and the empty str / list are falsy; the number modelled is non-zero
Truthy(v) ==
    CASE v.kind = "num" -> TRUE
      [] v.kind = "none" -> FALSE
      [] OTHER -> Len(v.items) > 0

\* whether len(v) and "for x in v" work on v
Iterable(v) == v.kind \in {"str", "list"}

Range(s) == {s[i] : i \in DOMAIN s}

\* ------------------------------------------------------- str operations

IsSpace(c) == c \in {" ", "\n"}

\* index (1-based) of the first / last non-blank element, 0 if none
FirstNonSpace(s) ==
    IF \E i \in DOMAIN s : ~IsSpace(s[i])
    THEN CHOOSE i \in DOMAIN s : ~IsSpace(s[i]) /\ \A j \in 1..(i-1) : IsSpace(s[j])
    ELSE 0

LastNonSpace(s) ==
    IF \E i \in DOMAIN s : ~IsSpace(s[i])
    THEN CHOOSE i \in DOMAIN s : ~IsSpace(s[i]) /\ \A j \in (i+1)..Len(s) : IsSpace(s[j])
    ELSE 0

\* str.strip()
Strip(s) ==
    IF FirstNonSpace(s) = 0 THEN <<>> ELSE SubSeq(s, FirstNonSpace(s), LastNonSpace(s))

\* str.startswith(p)
StartsWith(s, p) == Len(s) >= Len(p) /\ SubSeq(s, 1, Len(p)) = p

\* s[a:b] for 0-based a, b >= 0
Slice(s, a, b) == SubSeq(s, a + 1, IF b > Len(s) THEN Len(s) ELSE b)

\* s[a:-k] for a, k > 0: a negative stop counts from the end, clamped at 0
SliceToEnd(s, a, k) == Slice(s, a, IF Len(s) - k < 0 THEN 0 ELSE Len(s) - k)

\* str.find(c): 0-based index of the first c, -1 if absent
Find(s, c) ==
    IF \E i \in DOMAIN s : s[i] = c
    THEN (CHOOSE i \in DOMAIN s : s[i] = c /\ \A j \in 1..(i-1) : s[j] # c) - 1
    ELSE -1

\* str.rfind(c): 0-based index of the last c, -1 if absent
RFind(s, c) ==
    IF \E i \in DOMAIN s : s[i] = c
    THEN (CHOOSE i \in DOMAIN s : s[i] = c /\ \A j \in (i+1)..Len(s) : s[j] # c) - 1
    ELSE -1

\* ------------------------------------------------------- JSON decoding

\* the backtick character (written as an apostrophe here)
Tick == "'"

\* '```json' and '```'
FenceJson == <<Tick, Tick, Tick, "j", "s", "o", "n">>
Fence == <<Tick, Tick, Tick>>

\* the keys parse_json_response requires
required_keys ==
    <<"content", "video_search_queries", "document_search_queries",
      "web_search_queries", "linkedin_search_queries", "suggested_experts",
      "suggested_sources">>

Queries(prefix, n) == [i \in 1..n |-> <<prefix, i>>]
\* a record of a result list: where it comes from, the query that found it, its
\* position in the reply, and whether its title is a str
Item(from, query, n, title) == [from |-> from, query |-> query, n |-> n, title |-> title]
Suggested(what, n) == [i \in 1..n |-> Item(what, <<"llm", 0>>, i, "str")]

\* the JSON members a text can hold: unit |-> <<key, value>>
Members ==
    [C   |-> <<"content", PyStr(<<"essay">>)>>,
     V0  |-> <<"video_search_queries", PyList(<<>>)>>,
     V2  |-> <<"video_search_queries", PyList(Queries("v", 2))>>,
     V6  |-> <<"video_search_queries", PyList(Queries("v", 6))>>,
     Vn  |-> <<"video_search_queries", PyNum>>,
     D0  |-> <<"document_search_queries", PyList(<<>>)>>,
     D1  |-> <<"document_search_queries", PyList(Queries("d", 1))>>,
     W0  |-> <<"web_search_queries", PyList(<<>>)>>,
     W1  |-> <<"web_search_queries", PyList(Queries("w", 1))>>,
     L0  |-> <<"linkedin_search_queries", PyList(<<>>)>>,
     L1  |-> <<"linkedin_search_queries", PyList(Queries("l", 1))>>,
     E1  |-> <<"suggested_experts", PyList(Suggested("expert", 1))>>,
     S2  |-> <<"suggested_sources", PyList(Suggested("source", 2))>>,
     Sn  |-> <<"suggested_sources", PyNum>>,
     X16 |-> <<"videos", PyList(Suggested("video", 16))>>,
     K   |-> <<"note", PyStr(<<"extra">>)>>]

IsMember(c) == c \in DOMAIN Members

\* the text without its blanks (JSON allows blanks between any two units)
Units(s) == SelectSeq(s, LAMBDA c : ~IsSpace(c))

\* whether json.loads(s) succeeds: s is an object "{" member "," member ... "}"
Decodable(s) ==
    LET u == Units(s) IN
    /\ Len(u) >= 2
    /\ u[1] = "{"
    /\ u[Len(u)] = "}"
    /\ \/ Len(u) = 2
       \/ /\ Len(u) % 2 = 1
          /\ \A i \in 2..(Len(u) - 1) :
                IF i % 2 = 0 THEN IsMember(u[i]) ELSE u[i] = ","

\* json.loads(s) of a decodable s: a dict; of a repeated key the last value stays
json_loads(s) ==
    LET u == Units(s)
        at == {i \in 2..(Len(u) - 1) : IsMember(u[i])}
        keys == {Members[u[i]][1] : i \in at}
        last(k) == CHOOSE i \in at : /\ Members[u[i]][1] = k
                                     /\ \A j \in at : Members[u[j]][1] = k => j <= i
    IN [k \in keys |-> Members[u[last(k)]][2]]

\* the default a missing required key gets
DefaultFor(key) == IF key # "content" THEN PyList(<<>>) ELSE PyStr(<<>>)

\* mutant of Backfill: the loop leaves out the content key
BackfillListsOnly(parsed_data) ==
    [key \in DOMAIN parsed_data \cup (Range(required_keys) \ {"content"}) |->
        IF key \in DOMAIN parsed_data THEN parsed_data[key] ELSE DefaultFor(key)]

\* for key in required_keys: if key not in parsed_data: parsed_data[key] = default
Backfill(parsed_data) ==
    [key \in DOMAIN parsed_data \cup Range(required_keys) |->
        IF key \in DOMAIN parsed_data THEN parsed_data[key] ELSE DefaultFor(key)]

Apology == "Unable to generate research content. Please check your API keys and try again."

\* mutant of Fallback: the content is left empty
FallbackEmptyContent == [key \in Range(required_keys) |-> DefaultFor(key)]

\* the dict returned when no object could be decoded
Fallback ==
    [key \in Range(required_keys) |->
        IF key = "content" THEN PyStr(<<Apology>>) ELSE PyList(<<>>)]

\* mutant of Unfenced: the closing fence is cut one character too early
UnfencedCutsFour(response_text) ==
    LET t == Strip(response_text) IN
    IF StartsWith(t, FenceJson) THEN Strip(SliceToEnd(t, 7, 4))
    ELSE IF StartsWith(t, Fence) THEN Strip(SliceToEnd(t, 3, 4))
    ELSE t

\* response_text after strip() and the removal of a code fence
Unfenced(response_text) ==
    LET t == Strip(response_text) IN
    IF StartsWith(t, FenceJson) THEN Strip(SliceToEnd(t, 7, 3))
    ELSE IF StartsWith(t, Fence) THEN Strip(SliceToEnd(t, 3, 3))
    ELSE t

\* response_text[json_start:json_end] of the unfenced text
JsonText(text) == Slice(text, Find(text, "{"), RFind(text, "}") + 1)

\* whether the try block reaches json.loads and json.loads succeeds
HasObject(response_text) ==
    LET text == Unfenced(response_text)
        json_start == Find(text, "{")
        json_end == RFind(text, "}") + 1
    IN json_start # -1 /\ json_end # -1 /\ Decodable(JsonText(text))

parse_json_response(response_text) ==
    IF HasObject(response_text)
    THEN Backfill(json_loads(JsonText(Unfenced(response_text))))
    ELSE Fallback

\* ------------------------------------------------- the parser, applied

VARIABLES
    response_text,   \* parser: the raw text handed to parse_json_response
    fenced_text,     \* parser: the same text inside a code fence with a language tag
    parsed,          \* parser: parse_json_response(response_text)
    parsed_fenced,   \* parser: parse_json_response(fenced_text)
    ppc              \* parser: "start", "plain" (plain text parsed), "both"

parserVars == <<response_text, fenced_text, parsed, parsed_fenced, ppc>>

VARIABLES
    llm_texts,               \* the texts the LLM endpoint may answer with
    topic,                   \* widget: the research topic
    gemini_api_key,          \* widget / ResearchAssistant field
    youtube_api_key,         \* widget / ResearchAssistant field
    serpapi_key,             \* widget / ResearchAssistant field
    include_videos,          \* widget / argument
    include_web_search,      \* widget / argument
    session_state,           \* st.session_state: holds research_data or nothing
    presses,                 \* button presses so far
    runs,                    \* runs started so far; the clock of datetime.now()
    history,                 \* what happened in the session, oldest first
    pc,                      \* where generate_research_content stands
    ai_response,             \* local of generate_research_content
    research_data,           \* local of generate_research_content
    all_youtube_videos,      \* local of generate_research_content
    real_documents,          \* local of generate_research_content
    real_links,              \* local of generate_research_content
    real_linkedin_profiles,  \* local of generate_research_content
    qi,                      \* queries of the current loop already handled
    exception,               \* the exception raised inside the try block, or None
    result,                  \* what generate_research_content returned
    button,                  \* the button pressed last: "generate", "clear", "none"
    requests                 \* the HTTP requests of the current run, in order

widgetVars == <<topic, gemini_api_key, youtube_api_key, serpapi_key,
                include_videos, include_web_search>>
localVars == <<ai_response, research_data, all_youtube_videos, real_documents,
               real_links, real_linkedin_profiles, qi>>
sessionVars == <<llm_texts, widgetVars, session_state, presses, runs, history, pc,
                 localVars, exception, result, button, requests>>
vars == <<parserVars, sessionVars>>

NotParsed == [k \in {} |-> None]

\* all texts of at most n units over alphabet
RECURSIVE TextsUpTo(_, _)
TextsUpTo(alphabet, n) ==
    IF n = 0 THEN {<<>>}
    ELSE LET shorter == TextsUpTo(alphabet, n - 1)
         IN shorter \cup {Append(t, c) : t \in shorter, c \in alphabet}

BodyAlphabet == {"{", "}", ",", " ", "C"}

\* the member list of an object: the members separated by commas
Joined(members) ==
    [i \in 1..(IF Len(members) = 0 THEN 0 ELSE 2 * Len(members) - 1) |->
        IF i % 2 = 1 THEN members[(i + 1) \div 2] ELSE ","]

\* one member for each required key
KeyMembers == <<"C", "V2", "D1", "W1", "L1", "E1", "S2">>

\* the JSON objects holding a subset of the required keys
ObjectTexts ==
    {<<"{">> \o Joined(SelectSeq(KeyMembers, LAMBDA m : m \in S)) \o <<"}">> :
        S \in SUBSET Range(KeyMembers)}

\* what may stand before and after the body: nothing, a fence, prose
Prefixes == {<<>>, FenceJson, Fence, <<"x">>}
Suffixes == {<<>>, Fence, <<"x">>}

RawTexts ==
    {pre \o body \o suf :
        pre \in Prefixes,
        body \in TextsUpTo(BodyAlphabet, MaxBodyLen) \cup ObjectTexts,
        suf \in Suffixes}

\* an opening fence with a language tag, and a closing fence
FenceOpens == {FenceJson \o <<"\n">>, FenceJson, Fence \o <<"x", "\n">>}
FenceCloses == {<<"\n">> \o Fence, Fence}

ParserStart ==
    /\ response_text \in RawTexts
    /\ fenced_text = <<>>
    /\ parsed = NotParsed
    /\ parsed_fenced = NotParsed
    /\ ppc = "start"

ParsePlain ==
    /\ ppc = "start"
    /\ parsed' = parse_json_response(response_text)
    /\ ppc' = "plain"
    /\ UNCHANGED <<response_text, fenced_text, parsed_fenced>>
    /\ UNCHANGED sessionVars

ParseFenced ==
    /\ ppc = "plain"
    /\ \E open \in FenceOpens, close \in FenceCloses :
          /\ fenced_text' = open \o response_text \o close
          /\ parsed_fenced' = parse_json_response(open \o response_text \o close)
    /\ ppc' = "both"
    /\ UNCHANGED <<response_text, parsed>>
    /\ UNCHANGED sessionVars

ParserNext == ParsePlain \/ ParseFenced

\* ------------------------------------------------- pipeline and session

\* the number of button presses (Generate or Clear) a session is followed for
MaxPresses == 3

\* all_youtube_videos[:15]
MaxVideos == 15

\* max_results of each fetch_youtube_videos call
MaxResultsPerQuery == 3


EmptyDict == [k \in {} |-> None]
\* result before generate_research_content has returned
NoResult == [success |-> FALSE, error |-> None, data |-> None]

\* dict.get(key, default)
Get(dict, key, default) == IF key \in DOMAIN dict THEN dict[key] ELSE default

Request(api, query) == [api |-> api, query |-> query]

\* the GET of fetch_youtube_videos: its "q" and "maxResults" parameters
VideoRequest(query, max_results) ==
    [api |-> "youtube", query |-> query, maxResults |-> max_results]

\* ---- the texts of the LLM endpoint

Object(members) == <<"{">> \o Joined(members) \o <<"}">>

TextBlank == <<" ">>
TextProse == <<"x">>
TextFull == Object(<<"C", "V2", "D1", "W1", "L1", "E1", "S2">>)
TextVideoHeavy ==
    FenceJson \o <<"\n">> \o Object(<<"C", "V6", "D0", "W0", "L0", "S2">>)
        \o <<"\n">> \o Fence
TextVideosOnly == Object(<<"C", "V2", "D0", "W0", "L0">>)
TextOwnVideos == Object(<<"C", "V2", "X16">>)
TextNumber == Object(<<"C", "Vn">>)
TextNumberDocs == Object(<<"C", "Vn", "D1">>)
TextNumberSources == Object(<<"C", "V2", "Sn">>)
TextProfiles == Object(<<"C", "L1", "E1">>)

LLMTexts ==
    {TextBlank, TextProse, TextFull, TextVideoHeavy, TextVideosOnly, TextOwnVideos,
     TextNumber, TextNumberDocs, TextNumberSources, TextProfiles}

\* the texts of the endpoint in the sessions followed over several presses
SessionTexts == {TextProse, TextVideosOnly, TextProfiles}

\* ---- the replies of the video and search endpoints

\* a failed request (network error, timeout, non-2xx, malformed payload), or
\* the number of items of the payload
VideoReplies ==
    {[failed |-> TRUE, n |-> 0], [failed |-> FALSE, n |-> MaxResultsPerQuery]}

\* a failed request, or the organic results: each reachable with a title ("ok"),
\* not answering 200 to HEAD ("unreachable"), or reachable with a null title
SearchReplies ==
    {[failed |-> TRUE, organic |-> <<>>],
     [failed |-> FALSE, organic |-> <<"ok">>],
     [failed |-> FALSE, organic |-> <<"unreachable">>],
     [failed |-> FALSE, organic |-> <<"untitled">>]}

\* ---- the results of generate_research_content

Failure(message) ==
    [success |-> FALSE, error |-> PyStr(<<message>>), data |-> None]

Success(data) == [success |-> TRUE, error |-> None, data |-> data]

\* mutant of InternalError: the lists gathered so far are handed out
InternalErrorWithData(e) ==
    [success |-> FALSE, error |-> PyStr(<<"Internal error: ">> \o e.items),
     data |-> PyList(all_youtube_videos \o real_documents \o real_links)]

\* the result of the except branch: f"Internal error: {str(e)}", no data
InternalError(e) ==
    [success |-> FALSE, error |-> PyStr(<<"Internal error: ">> \o e.items), data |-> None]

\* str(e) of the exceptions the try block can raise
NotIterable == PyStr(<<"'int' object is not iterable">>)
NoLen == PyStr(<<"object of type 'int' has no len()">>)
NoReplace == PyStr(<<"'NoneType' object has no attribute 'replace'">>)

\* ---- generate_research_content, step by step

\* mutant of NoText: only None counts as no text
NoTextNoneOnly(reply) == reply = None

\* not ai_response
NoText(reply) == ~Truthy(reply)

\* get_gemini_response and the check of its text: one POST; the text, stripped,
\* or None when the request fails or holds no candidate
LLMCall ==
    /\ pc = "llm"
    /\ \E reply \in {None} \cup {PyStr(Strip(t)) : t \in llm_texts} :
          /\ ai_response' = reply
          /\ IF NoText(reply)
             THEN /\ result' = Failure("Failed to generate content from AI")
                  /\ pc' = "returned"
             ELSE /\ result' = result
                  /\ pc' = "parse"
    /\ requests' = Append(requests, Request("gemini", <<"prompt", 0>>))
    /\ UNCHANGED <<exception, research_data, all_youtube_videos, real_documents, real_links,
                   real_linkedin_profiles, qi>>
    /\ UNCHANGED <<llm_texts, widgetVars, session_state, presses, runs, history, button>>
    /\ UNCHANGED parserVars

ParseResponse ==
    /\ pc = "parse"
    /\ research_data' = parse_json_response(ai_response.items)
    /\ pc' = "videos"
    /\ UNCHANGED <<ai_response, all_youtube_videos, real_documents, real_links,
                   real_linkedin_profiles, qi, exception, result, requests>>
    /\ UNCHANGED <<llm_texts, widgetVars, session_state, presses, runs, history, button>>
    /\ UNCHANGED parserVars

\* include_videos and self.youtube_api_key and research_data.get('video_search_queries')
VideosWanted ==
    /\ include_videos
    /\ Truthy(youtube_api_key)
    /\ Truthy(Get(research_data, "video_search_queries", None))

\* mutant of SearchWanted: the toggle is not looked at
SearchWantedIgnoresToggle == Truthy(serpapi_key)

\* include_web_search and self.serpapi_key
SearchWanted == include_web_search /\ Truthy(serpapi_key)

\* mutant of fetch_youtube_videos: the request asks for the default of the
\* signature (max_results = 5) whatever the caller passes
fetch_youtube_videos_default(query, max_results, reply) ==
    IF ~Truthy(youtube_api_key)
    THEN [videos |-> <<>>, requests |-> <<>>]
    ELSE [videos |-> IF reply.failed THEN <<>>
                     ELSE [i \in 1..reply.n |-> Item("youtube", query, i, "str")],
          requests |-> <<VideoRequest(query, 5)>>]

\* fetch_youtube_videos(query, max_results) under a reply: the records it
\* returns and the requests it issues
fetch_youtube_videos(query, max_results, reply) ==
    IF ~Truthy(youtube_api_key)
    THEN [videos |-> <<>>, requests |-> <<>>]
    ELSE [videos |-> IF reply.failed THEN <<>>
                     ELSE [i \in 1..reply.n |-> Item("youtube", query, i, "str")],
          requests |-> <<VideoRequest(query, max_results)>>]

\* one round of "for query in research_data['video_search_queries']"
FetchVideos ==
    /\ pc = "videos"
    /\ VideosWanted
    /\ Iterable(research_data["video_search_queries"])
    /\ qi < Len(research_data["video_search_queries"].items)
    /\ \E reply \in VideoReplies :
          LET query == research_data["video_search_queries"].items[qi + 1]
              got == fetch_youtube_videos(query, MaxResultsPerQuery, reply)
          IN /\ all_youtube_videos' = all_youtube_videos \o got.videos
             /\ requests' = requests \o got.requests
    /\ qi' = qi + 1
    /\ UNCHANGED <<pc, ai_response, research_data, real_documents, real_links,
                   real_linkedin_profiles, exception, result>>
    /\ UNCHANGED <<llm_texts, widgetVars, session_state, presses, runs, history, button>>
    /\ UNCHANGED parserVars

\* mutant of TopVideos: the list is not cut
TopVideosUncut(videos) == videos

\* all_youtube_videos[:15]
TopVideos(videos) == Slice(videos, 0, MaxVideos)

\* the video branch is skipped, raises, or ends by storing the top videos
AfterVideos ==
    /\ pc = "videos"
    /\ ~(/\ VideosWanted
         /\ Iterable(research_data["video_search_queries"])
         /\ qi < Len(research_data["video_search_queries"].items))
    /\ IF ~VideosWanted
       THEN /\ pc' = IF SearchWanted THEN "documents" ELSE "assemble"
            /\ UNCHANGED <<research_data, exception>>
       ELSE IF ~Iterable(research_data["video_search_queries"])
       THEN /\ exception' = NotIterable
            /\ pc' = "except"
            /\ UNCHANGED research_data
       ELSE /\ research_data' =
                  [key \in DOMAIN research_data \cup {"videos"} |->
                      IF key = "videos" THEN PyList(TopVideos(all_youtube_videos))
                      ELSE research_data[key]]
            /\ pc' = IF SearchWanted THEN "documents" ELSE "assemble"
            /\ UNCHANGED exception
    /\ qi' = 0
    /\ UNCHANGED <<ai_response, all_youtube_videos, real_documents, real_links,
                   real_linkedin_profiles, result, requests>>
    /\ UNCHANGED <<llm_texts, widgetVars, session_state, presses, runs, history, button>>
    /\ UNCHANGED parserVars

\* the query list and the search type of each search loop, and the loop after it
QueryKey ==
    [documents |-> "document_search_queries", web |-> "web_search_queries",
     linkedin |-> "linkedin_search_queries"]
SearchType == [documents |-> "documents", web |-> "general", linkedin |-> "profiles"]

\* mutant of AfterLoop: the profile loop runs before the web loop
AfterLoopProfilesFirst ==
    [documents |-> "linkedin", linkedin |-> "web", web |-> "assemble"]

AfterLoop == [documents |-> "web", web |-> "linkedin", linkedin |-> "assemble"]

\* mutant of search_web_content: a failed request leaves one record without
\* content instead of no record
search_web_content_failed_record(query, search_type, reply) ==
    IF ~Truthy(serpapi_key)
    THEN [results |-> <<>>, requests |-> <<>>]
    ELSE LET kept == SelectSeq(reply.organic, LAMBDA o : o # "unreachable")
         IN [results |-> IF reply.failed THEN <<Item(search_type, query, 1, "str")>>
                         ELSE [i \in 1..Len(kept) |->
                                  Item(search_type, query, i,
                                       IF kept[i] = "untitled" THEN "None" ELSE "str")],
             requests |-> <<Request("serpapi", query)>> \o
                          (IF reply.failed THEN <<>>
                           ELSE [i \in 1..Len(reply.organic) |-> Request("head", query)])]

\* search_web_content(query, search_type) under a reply: the results it returns
\* (the organic results that verify_url accepts) and the requests it issues
search_web_content(query, search_type, reply) ==
    IF ~Truthy(serpapi_key)
    THEN [results |-> <<>>, requests |-> <<>>]
    ELSE LET kept == SelectSeq(reply.organic, LAMBDA o : o # "unreachable")
         IN [results |-> IF reply.failed THEN <<>>
                         ELSE [i \in 1..Len(kept) |->
                                  Item(search_type, query, i,
                                       IF kept[i] = "untitled" THEN "None" ELSE "str")],
             requests |-> <<Request("serpapi", query)>> \o
                          (IF reply.failed THEN <<>>
                           ELSE [i \in 1..Len(reply.organic) |-> Request("head", query)])]

\* one round of one of the three "for query in research_data.get(..., [])" loops
SearchQuery ==
    /\ pc \in DOMAIN QueryKey
    /\ Iterable(Get(research_data, QueryKey[pc], PyList(<<>>)))
    /\ qi < Len(Get(research_data, QueryKey[pc], PyList(<<>>)).items)
    /\ \E reply \in SearchReplies :
          LET query == research_data[QueryKey[pc]].items[qi + 1]
              got == search_web_content(query, SearchType[pc], reply)
              \* result["title"].replace(...) of the profile loop raises on None
              raises == pc = "linkedin" /\ \E i \in DOMAIN got.results :
                                               got.results[i].title = "None"
          IN /\ requests' = requests \o got.requests
             /\ IF raises
                THEN /\ exception' = NoReplace
                     /\ pc' = "except"
                     /\ UNCHANGED <<real_documents, real_links, real_linkedin_profiles>>
                ELSE /\ real_documents' =
                          IF pc = "documents" THEN real_documents \o got.results
                          ELSE real_documents
                     /\ real_links' =
                          IF pc = "web" THEN real_links \o got.results ELSE real_links
                     /\ real_linkedin_profiles' =
                          IF pc = "linkedin" THEN real_linkedin_profiles \o got.results
                          ELSE real_linkedin_profiles
                     /\ UNCHANGED <<pc, exception>>
    /\ qi' = qi + 1
    /\ UNCHANGED <<ai_response, research_data, all_youtube_videos, result>>
    /\ UNCHANGED <<llm_texts, widgetVars, session_state, presses, runs, history, button>>
    /\ UNCHANGED parserVars

\* a search loop ends (or raises on a list that cannot be iterated)
AfterSearch ==
    /\ pc \in DOMAIN QueryKey
    /\ LET queries == Get(research_data, QueryKey[pc], PyList(<<>>))
       IN IF ~Iterable(queries)
          THEN /\ exception' = NotIterable
               /\ pc' = "except"
          ELSE /\ qi = Len(queries.items)
               /\ pc' = AfterLoop[pc]
               /\ UNCHANGED exception
    /\ qi' = 0
    /\ UNCHANGED <<ai_response, research_data, all_youtube_videos, real_documents,
                   real_links, real_linkedin_profiles, result, requests>>
    /\ UNCHANGED <<llm_texts, widgetVars, session_state, presses, runs, history, button>>
    /\ UNCHANGED parserVars

\* mutant of FinalDocuments: the suggested sources follow the documents found
FinalDocumentsMixed ==
    LET suggested == Get(research_data, "suggested_sources", PyList(<<>>))
    IN IF suggested.kind = "list" THEN PyList(real_documents \o suggested.items)
       ELSE PyList(real_documents)

\* real_documents if real_documents else research_data.get('suggested_sources', [])
FinalDocuments ==
    IF real_documents # <<>> THEN PyList(real_documents)
    ELSE Get(research_data, "suggested_sources", PyList(<<>>))

\* real_links if real_links else []
FinalLinks == PyList(real_links)

\* real_linkedin_profiles if ... else research_data.get('suggested_experts', [])
FinalProfiles ==
    IF real_linkedin_profiles # <<>> THEN PyList(real_linkedin_profiles)
    ELSE Get(research_data, "suggested_experts", PyList(<<>>))

\* the "data" dict of the success result
ResultData ==
    LET videos == Get(research_data, "videos", PyList(<<>>)) IN
    [kind |-> "dict",
     topic |-> topic,
     content |-> Get(research_data, "content", PyStr(<<>>)),
     videos |-> videos,
     documents |-> FinalDocuments,
     links |-> FinalLinks,
     linkedin_profiles |-> FinalProfiles,
     search_queries |->
        [videos |-> Get(research_data, "video_search_queries", PyList(<<>>)),
         documents |-> Get(research_data, "document_search_queries", PyList(<<>>)),
         web |-> Get(research_data, "web_search_queries", PyList(<<>>)),
         linkedin |-> Get(research_data, "linkedin_search_queries", PyList(<<>>))],
     metadata |->
        [ai_model |-> "gemini-2.0-flash",
         generated_at |-> runs,
         total_videos |-> Len(all_youtube_videos),
         videos_included |-> Len(videos.items),
         documents_found |-> Len(FinalDocuments.items),
         links_found |-> Len(FinalLinks.items),
         linkedin_profiles_found |-> Len(FinalProfiles.items),
         web_search_enabled |-> include_web_search /\ serpapi_key # None]]

\* the final lists are chosen and the result is built; len() of a number raises
Assemble ==
    /\ pc = "assemble"
    /\ IF /\ Iterable(Get(research_data, "videos", PyList(<<>>)))
          /\ Iterable(FinalDocuments)
          /\ Iterable(FinalProfiles)
       THEN /\ result' = Success(ResultData)
            /\ pc' = "returned"
            /\ UNCHANGED exception
       ELSE /\ exception' = NoLen
            /\ pc' = "except"
            /\ UNCHANGED result
    /\ UNCHANGED localVars
    /\ UNCHANGED <<requests>>
    /\ UNCHANGED <<llm_texts, widgetVars, session_state, presses, runs, history, button>>
    /\ UNCHANGED parserVars

\* except Exception as e: the failure result carries str(e)
Caught ==
    /\ pc = "except"
    /\ result' = InternalError(exception)
    /\ pc' = "returned"
    /\ UNCHANGED localVars
    /\ UNCHANGED <<exception, requests>>
    /\ UNCHANGED <<llm_texts, widgetVars, session_state, presses, runs, history, button>>
    /\ UNCHANGED parserVars

PipelineNext ==
    \/ LLMCall
    \/ ParseResponse
    \/ FetchVideos
    \/ AfterVideos
    \/ SearchQuery
    \/ AfterSearch
    \/ Assemble
    \/ Caught

\* ---- main(): the buttons and the session

\* what a key input of the sidebar can hold
KeyInputs == {PyStr(<<>>), PyStr(<<"key">>)}

\* what the key fields of a ResearchAssistant can hold (None is the default)
KeyValues == {None} \cup KeyInputs

Topics == {<<>>, <<" ">>, <<"q">>}

\* mutant of Invalid: the topic is not stripped before the check
InvalidUnstripped(t, key) == t = <<>> \/ ~Truthy(key)

\* not topic.strip() or not gemini_api_key: main returns before any run
Invalid(t, key) == Strip(t) = <<>> \/ ~Truthy(key)

FreshLocals ==
    /\ ai_response' = None
    /\ research_data' = EmptyDict
    /\ all_youtube_videos' = <<>>
    /\ real_documents' = <<>>
    /\ real_links' = <<>>
    /\ real_linkedin_profiles' = <<>>
    /\ qi' = 0

\* the Generate button: validation, then a ResearchAssistant and its run
Generate ==
    /\ pc = "idle"
    /\ presses < MaxPresses
    /\ presses' = presses + 1
    /\ button' = "generate"
    /\ \E t \in Topics, g \in KeyInputs, y \in KeyInputs, k \in KeyInputs,
          v \in BOOLEAN, w \in BOOLEAN :
          /\ topic' = t
          /\ gemini_api_key' = g
          /\ youtube_api_key' = y
          /\ serpapi_key' = k
          /\ include_videos' = v
          /\ include_web_search' = w
          /\ IF Invalid(t, g)
             THEN UNCHANGED <<pc, runs, requests, exception, result, localVars>>
             ELSE /\ pc' = "llm"
                  /\ runs' = runs + 1
                  /\ requests' = <<>>
                  /\ exception' = None
                  /\ result' = NoResult
                  /\ FreshLocals
    /\ UNCHANGED <<llm_texts, session_state, history>>
    /\ UNCHANGED parserVars

\* mutant of Stored: a failed run empties the slot
StoredOrEmptied(state, res) ==
    IF res.success THEN [k \in {"research_data"} |-> res.data] ELSE EmptyDict

\* if result["success"]: st.session_state.research_data = result["data"]
Stored(state, res) ==
    IF res.success THEN [k \in {"research_data"} |-> res.data] ELSE state

\* main() receives the result of the run
ShowResult ==
    /\ pc = "returned"
    /\ session_state' = Stored(session_state, result)
    /\ history' = Append(history, [ev |-> "run", run |-> runs, success |-> result.success])
    /\ pc' = "idle"
    /\ FreshLocals
    /\ UNCHANGED <<llm_texts, widgetVars, presses, runs, exception, result, button,
                   requests>>
    /\ UNCHANGED parserVars

\* the Clear Results button: del st.session_state.research_data; st.rerun()
Clear ==
    /\ pc = "idle"
    /\ presses < MaxPresses
    /\ presses' = presses + 1
    /\ button' = "clear"
    /\ session_state' = EmptyDict
    /\ history' = Append(history, [ev |-> "clear", run |-> runs, success |-> FALSE])
    /\ UNCHANGED <<llm_texts, widgetVars, runs, pc, localVars, exception, result,
                   requests>>
    /\ UNCHANGED parserVars

\* ---- specifications

ParserIdle ==
    /\ response_text = <<>>
    /\ fenced_text = <<>>
    /\ parsed = NotParsed
    /\ parsed_fenced = NotParsed
    /\ ppc = "start"

SessionIdle ==
    /\ llm_texts = SessionTexts
    /\ topic = <<>>
    /\ gemini_api_key = PyStr(<<>>)
    /\ youtube_api_key = PyStr(<<>>)
    /\ serpapi_key = PyStr(<<>>)
    /\ include_videos = TRUE
    /\ include_web_search = TRUE
    /\ session_state = EmptyDict
    /\ presses = 0
    /\ runs = 0
    /\ history = <<>>
    /\ pc = "idle"
    /\ ai_response = None
    /\ research_data = EmptyDict
    /\ all_youtube_videos = <<>>
    /\ real_documents = <<>>
    /\ real_links = <<>>
    /\ real_linkedin_profiles = <<>>
    /\ qi = 0
    /\ exception = None
    /\ result = NoResult
    /\ button = "none"
    /\ requests = <<>>

\* a fresh session: nothing stored, no button pressed yet
Init == ParserIdle /\ SessionIdle

Next == Generate \/ Clear \/ ShowResult \/ PipelineNext

Spec == Init /\ [][Next]_vars

\* one call of generate_research_content, with any arguments, on a
\* ResearchAssistant with any keys, against an LLM that may answer any text
PipelineInit ==
    /\ ParserIdle
    /\ llm_texts = LLMTexts
    /\ topic = <<"q">>
    /\ gemini_api_key = PyStr(<<"key">>)
    /\ youtube_api_key \in KeyValues
    /\ serpapi_key \in KeyValues
    /\ include_videos \in BOOLEAN
    /\ include_web_search \in BOOLEAN
    /\ session_state = EmptyDict
    /\ presses = 0
    /\ runs = 1
    /\ history = <<>>
    /\ pc = "llm"
    /\ ai_response = None
    /\ research_data = EmptyDict
    /\ all_youtube_videos = <<>>
    /\ real_documents = <<>>
    /\ real_links = <<>>
    /\ real_linkedin_profiles = <<>>
    /\ qi = 0
    /\ exception = None
    /\ result = NoResult
    /\ button = "none"
    /\ requests = <<>>

PipelineSpec == PipelineInit /\ [][PipelineNext]_vars

\* parse_json_response applied to any raw text
ParserInit == ParserStart /\ SessionIdle

ParserSpec == ParserInit /\ [][ParserNext]_vars

\* ------------------------------------------------- claims on the parser

\* the object the parser decoded from text (text must satisfy HasObject)
DecodedFrom(text) == json_loads(JsonText(Unfenced(text)))

\* whether some slice of text is a JSON object
ContainsDecodable(text) ==
    \E a \in 1..Len(text), b \in 1..Len(text) : a <= b /\ Decodable(SubSeq(text, a, b))

CompleteFor(text, dict) ==
    /\ Range(required_keys) \subseteq DOMAIN dict
    /\ HasObject(text) =>
          \A i \in DOMAIN required_keys :
              required_keys[i] \notin DOMAIN DecodedFrom(text) =>
                  dict[required_keys[i]] =
                      (IF i = 1 THEN PyStr(<<>>) ELSE PyList(<<>>))

\* C1: whatever the input text, the parser returns a dict that holds all seven
\* required keys, and a key the decoded object lacks holds "" (content) or []
C1_AllKeysPresent ==
    /\ ppc # "start" => CompleteFor(response_text, parsed)
    /\ ppc = "both" => CompleteFor(fenced_text, parsed_fenced)

C1_Witness ==
    /\ ppc # "start"
    /\ HasObject(response_text)
    /\ "content" \in DOMAIN DecodedFrom(response_text)
    /\ "suggested_sources" \notin DOMAIN DecodedFrom(response_text)
    /\ parsed["suggested_sources"] = PyList(<<>>)

\* C2: a text with no decodable JSON object in it parses to the canonical
\* fallback: the apology as content and six empty lists
C2_FallbackWhenNoObject ==
    (ppc # "start" /\ ~ContainsDecodable(response_text)) =>
        /\ DOMAIN parsed = Range(required_keys)
        /\ parsed["content"] = PyStr(<<Apology>>)
        /\ \A i \in 2..Len(required_keys) : parsed[required_keys[i]] = PyList(<<>>)

C2_Witness ==
    /\ ppc # "start"
    /\ ~ContainsDecodable(response_text)
    /\ Find(response_text, "{") # -1
    /\ RFind(response_text, "}") > Find(response_text, "{")
    /\ parsed["content"] = PyStr(<<Apology>>)

\* C3: a valid JSON object inside a fence with a language tag parses to the
\* same dict as the object alone
C3_FenceIsTransparent ==
    (ppc = "both" /\ Decodable(response_text)) => parsed_fenced = parsed

C3_Witness ==
    /\ ppc = "both"
    /\ Decodable(response_text)
    /\ StartsWith(fenced_text, FenceJson)
    /\ "content" \in DOMAIN json_loads(response_text)
    /\ parsed_fenced = parsed
    /\ parsed["content"] = PyStr(<<"essay">>)

\* ------------------------------------------------- claims on the pipeline

Succeeded == pc = "returned" /\ result.success

\* the apis of the requests issued so far in the run
ApisUsed == {requests[i].api : i \in DOMAIN requests}

\* C4: when the LLM call yields no text (None or ""), the run returns at once a
\* failure with no data and a non-empty error, and issues no video or search request
C4_NoTextFails ==
    (pc # "llm" /\ (ai_response = None \/ ai_response = PyStr(<<>>))) =>
        /\ pc = "returned"
        /\ ~result.success
        /\ result.data = None
        /\ result.error.kind = "str" /\ result.error.items # <<>>
        /\ ApisUsed = {"gemini"}

C4_Witness ==
    /\ pc = "returned"
    /\ ai_response = PyStr(<<>>)
    /\ ~result.success
    /\ Len(requests) = 1

\* C5: a success result never holds more than 15 videos, whatever the LLM object
\* holds and whether or not videos are included
C5_AtMost15Videos ==
    Succeeded => Len(result.data.videos.items) <= 15

\* C6: with web search off or no search key, the run issues no search and no
\* HEAD request, and a success result has documents = suggested_sources,
\* linkedin_profiles = suggested_experts and links = []
C6_NoSearchWithoutKeyOrToggle ==
    (~include_web_search \/ serpapi_key = None \/ serpapi_key = PyStr(<<>>)) =>
        /\ ApisUsed \cap {"serpapi", "head"} = {}
        /\ Succeeded =>
              /\ result.data.documents = research_data["suggested_sources"]
              /\ result.data.linkedin_profiles = research_data["suggested_experts"]
              /\ result.data.links = PyList(<<>>)

C6_Witness ==
    /\ Succeeded
    /\ ~include_web_search
    /\ serpapi_key = PyStr(<<"key">>)
    /\ Len(research_data["document_search_queries"].items) > 0
    /\ result.data.documents = PyList(Suggested("source", 2))
    /\ result.data.linkedin_profiles = PyList(Suggested("expert", 1))

\* the run of C7: a decoded object with video queries and empty document, web
\* and linkedin query lists, a video key, and a success result
VideoScenario ==
    /\ Succeeded
    /\ HasObject(ai_response.items)
    /\ research_data["video_search_queries"].kind = "list"
    /\ research_data["video_search_queries"].items # <<>>
    /\ research_data["document_search_queries"] = PyList(<<>>)
    /\ research_data["web_search_queries"] = PyList(<<>>)
    /\ research_data["linkedin_search_queries"] = PyList(<<>>)
    /\ Truthy(youtube_api_key)

\* C7 as stated, for the runs with video inclusion on (the default): in the
\* video scenario the result has at most 15 videos, videos_included is their
\* number and documents_found is 0
C7_Original ==
    (VideoScenario /\ include_videos) =>
        /\ Len(result.data.videos.items) <= 15
        /\ result.data.metadata.videos_included = Len(result.data.videos.items)
        /\ result.data.metadata.documents_found = 0

\* C7 amended: in the video scenario videos_included is the number of videos,
\* documents_found is the number of documents, which are the LLM's suggested
\* sources, and with videos included there are at most 15 videos
C7_VideoScenarioCounts ==
    VideoScenario =>
        /\ result.data.metadata.videos_included = Len(result.data.videos.items)
        /\ result.data.documents = research_data["suggested_sources"]
        /\ result.data.metadata.documents_found =
              Len(research_data["suggested_sources"].items)
        /\ include_videos => Len(result.data.videos.items) <= 15

C7_Witness ==
    /\ VideoScenario
    /\ include_videos
    /\ Len(all_youtube_videos) > 15
    /\ result.data.metadata.videos_included = 15
    /\ result.data.metadata.documents_found = 2

\* C8: an exception raised inside the run is caught: the run returns a failure
\* whose error carries the exception text and whose data is absent, whatever
\* had been gathered before
C8_ExceptionsBecomeFailures ==
    /\ pc = "except" => ENABLED Caught
    /\ (pc = "returned" /\ exception # None) =>
          /\ ~result.success
          /\ result.data = None
          /\ result.error = PyStr(<<"Internal error: ">> \o exception.items)
    /\ (pc = "returned" /\ ~result.success) => result.data = None

C8_Witness ==
    /\ pc = "returned"
    /\ exception = NoLen
    /\ all_youtube_videos # <<>>
    /\ result.data = None

\* ------------------------------------------------- claims on the session

\* the run whose data the slot should hold by the history: scanning back from
\* the newest event, a clear gives none (0), a successful run gives its number
RECURSIVE LastGood(_)
LastGood(h) ==
    IF h = <<>> THEN 0
    ELSE LET e == h[Len(h)] IN
         IF e.ev = "clear" THEN 0
         ELSE IF e.success THEN e.run
         ELSE LastGood(SubSeq(h, 1, Len(h) - 1))

SlotRun ==
    IF "research_data" \in DOMAIN session_state
    THEN session_state["research_data"].metadata.generated_at
    ELSE 0

\* C9 as stated: the slot holds the outcome of the newest run, unless a Clear
\* came after it, and then it is empty; it never holds an earlier run's data
C9_Original ==
    history # <<>> =>
        LET newest == history[Len(history)] IN
        IF newest.ev = "run" /\ newest.success
        THEN SlotRun = newest.run
        ELSE session_state = EmptyDict

\* C9 amended: the slot holds the data of the newest successful run, unless a
\* Clear came after it, and then it is empty; a failed run leaves it as it was
C9_SlotHoldsLastSuccess ==
    /\ SlotRun = LastGood(history)
    /\ DOMAIN session_state = (IF LastGood(history) = 0 THEN {} ELSE {"research_data"})

C9_Witness ==
    /\ Len(history) = 2
    /\ history[1].ev = "run" /\ history[1].success
    /\ history[2].ev = "run" /\ ~history[2].success
    /\ SlotRun = 1

\* C10: Generate with a blank topic or without the LLM key starts nothing: no
\* run, no request, and the slot stays as it was
C10_InvalidPressStartsNothing ==
    [][(/\ button' = "generate"
        /\ presses' = presses + 1
        /\ (Strip(topic') = <<>> \/ gemini_api_key' = PyStr(<<>>)))
       => (/\ pc' = "idle"
           /\ runs' = runs
           /\ requests' = requests
           /\ session_state' = session_state)]_vars

C10_Witness ==
    /\ button = "generate"
    /\ topic = <<" ">>
    /\ gemini_api_key = PyStr(<<"key">>)
    /\ pc = "idle"
    /\ presses = 2
    /\ runs = 1
    /\ SlotRun = 1

\* ---- the order of the external requests

IsPrefix(a, b) == Len(a) <= Len(b) /\ a = SubSeq(b, 1, Len(a))

\* the entries of a query list of the parsed response (none before it is parsed)
Entries(key) ==
    LET v == Get(research_data, key, PyList(<<>>))
    IN IF v.kind = "list" THEN v.items ELSE <<>>

SearchRequests(key) == [i \in 1..Len(Entries(key)) |-> Request("serpapi", Entries(key)[i])]

\* the requests the run is to issue: the LLM request, one video request per
\* video query, one search request per document, web and profile query
ExpectedRequests ==
    <<Request("gemini", <<"prompt", 0>>)>>
    \o (IF include_videos /\ Truthy(youtube_api_key)
        THEN [i \in 1..Len(Entries("video_search_queries")) |->
                 VideoRequest(Entries("video_search_queries")[i], MaxResultsPerQuery)]
        ELSE <<>>)
    \o (IF include_web_search /\ Truthy(serpapi_key)
        THEN SearchRequests("document_search_queries")
             \o SearchRequests("web_search_queries")
             \o SearchRequests("linkedin_search_queries")
        ELSE <<>>)

\* the requests without the HEAD requests that verify the links of a search
Issued == SelectSeq(requests, LAMBDA r : r.api # "head")

\* C11 as stated: every run issues exactly one request per entry, in the order
\* LLM, video queries, document, web and profile queries
C11_Original == pc = "returned" => Issued = ExpectedRequests

\* C11: at every moment the requests issued are an initial part of the sequence
\* LLM, video queries, document, web, profile queries (one request per entry, in
\* list order); a HEAD request follows the search it verifies; a run that
\* returns success has issued the whole sequence
C11_RequestsInOrder ==
    /\ IsPrefix(Issued, ExpectedRequests)
    /\ \A i \in DOMAIN requests :
          requests[i].api = "head"
              => /\ i > 1
                 /\ requests[i - 1].api \in {"serpapi", "head"}
                 /\ requests[i - 1].query = requests[i].query
    /\ Succeeded => Issued = ExpectedRequests

C11_Witness ==
    /\ Succeeded
    /\ Len(Issued) = 6
    /\ Len(requests) = 9

\* ---- failed video and search requests

\* the step issues one video or search request, and the request fails: a search
\* request that no HEAD request follows, a video request that leaves no record
\* of its query
FailedRequestStep ==
    /\ Len(requests') = Len(requests) + 1
    /\ LET r == requests'[Len(requests')]
       IN \/ r.api = "serpapi"
          \/ /\ r.api = "youtube"
             /\ \A i \in DOMAIN all_youtube_videos' : all_youtube_videos'[i].query # r.query

\* C12: a failed video-search or general-search request adds nothing to the
\* results and does not abort the run: the results gathered so far are kept, no
\* exception is raised, and the loop goes on with the next query
C12_FailedRequestKeepsRunning ==
    [][FailedRequestStep
       => (/\ all_youtube_videos' = all_youtube_videos
           /\ real_documents' = real_documents
           /\ real_links' = real_links
           /\ real_linkedin_profiles' = real_linkedin_profiles
           /\ exception' = exception
           /\ pc' = pc
           /\ pc' \in {"videos", "documents", "web", "linkedin"}
           /\ qi' = qi + 1)]_vars

\* a run returns success although its first video request and its document
\* request failed; the records of the second video query are kept
C12_Witness ==
    /\ Succeeded
    /\ Len(requests) > 3
    /\ requests[2].api = "youtube"
    /\ requests[3].api = "youtube"
    /\ Len(all_youtube_videos) = MaxResultsPerQuery
    /\ \A i \in DOMAIN all_youtube_videos : all_youtube_videos[i].query = requests[3].query
    /\ \E i \in DOMAIN requests :
          /\ requests[i].api = "serpapi"
          /\ (i = Len(requests) \/ requests[i + 1].api # "head")
    /\ Len(real_links) > 0

\* ---- the number of video requests

VideoRequests == SelectSeq(requests, LAMBDA r : r.api = "youtube")

\* C13 as stated: a run issues at most 5 video requests whatever the number of
\* entries of video_search_queries
C13_Original == Len(VideoRequests) <= 5

\* C13: every video request asks for at most 3 results, and a run issues one
\* video request per entry of video_search_queries, however many entries the
\* list holds: never more than the list holds, and all of them in a run that
\* returns success with videos enabled and the video key present
C13_OneVideoRequestPerEntry ==
    /\ \A i \in DOMAIN VideoRequests : VideoRequests[i].maxResults = MaxResultsPerQuery
    /\ Len(VideoRequests) <= Len(Entries("video_search_queries"))
    /\ (Succeeded /\ include_videos /\ Truthy(youtube_api_key))
          => Len(VideoRequests) = Len(Entries("video_search_queries"))

C13_Witness ==
    /\ Succeeded
    /\ Len(VideoRequests) = 6
    /\ Len(all_youtube_videos) = 6 * MaxResultsPerQuery
    /\ Len(result.data["videos"].items) = MaxVideos

\* ---- the final lists of a run with web search

\* a record built from a result of a search of the given type, for a query of
\* the given list, which the run has sent to the search endpoint
FoundBy(r, search_type, key) ==
    /\ r.from = search_type
    /\ \E i \in DOMAIN Entries(key) : Entries(key)[i] = r.query
    /\ \E i \in DOMAIN requests : requests[i] = Request("serpapi", r.query)

AllFoundBy(list, search_type, key) ==
    /\ list.kind = "list"
    /\ \A i \in DOMAIN list.items : FoundBy(list.items[i], search_type, key)

\* C14: in a success result of a run with web search enabled and its key
\* present, documents are the records of the document searches if there is one
\* and the LLM's suggested_sources otherwise, linkedin_profiles the records of
\* the profile searches if there is one and suggested_experts otherwise, links
\* the records of the web searches (none otherwise); no list mixes both kinds,
\* and every record of a search carries the query that produced it
C14_RealResultsPreferred ==
    (Succeeded /\ include_web_search /\ Truthy(serpapi_key))
    => LET data == result.data IN
       /\ IF real_documents # <<>>
          THEN /\ data.documents.items = real_documents
               /\ AllFoundBy(data.documents, "documents", "document_search_queries")
          ELSE data.documents = Get(research_data, "suggested_sources", PyList(<<>>))
       /\ IF real_linkedin_profiles # <<>>
          THEN /\ data.linkedin_profiles.items = real_linkedin_profiles
               /\ AllFoundBy(data.linkedin_profiles, "profiles", "linkedin_search_queries")
          ELSE data.linkedin_profiles = Get(research_data, "suggested_experts", PyList(<<>>))
       /\ data.links.items = real_links
       /\ AllFoundBy(data.links, "general", "web_search_queries")
       /\ \A i \in DOMAIN Get(research_data, "suggested_sources", PyList(<<>>)).items :
             research_data["suggested_sources"].items[i].from = "source"
       /\ \A i \in DOMAIN Get(research_data, "suggested_experts", PyList(<<>>)).items :
             research_data["suggested_experts"].items[i].from = "expert"

\* documents and links come from the searches, the profiles are the suggested
\* experts because the profile search found none
C14_Witness ==
    /\ Succeeded
    /\ include_web_search /\ Truthy(serpapi_key)
    /\ Len(result.data.documents.items) = 1
    /\ result.data.documents.items[1].from = "documents"
    /\ Len(Entries("suggested_sources")) = 2
    /\ Len(result.data.links.items) = 1
    /\ real_linkedin_profiles = <<>>
    /\ Len(result.data.linkedin_profiles.items) = 1
    /\ result.data.linkedin_profiles.items[1].from = "expert"

\* ---- the metadata of a success result

\* C15: metadata.web_search_enabled is true exactly when include_web_search is
\* true and the search key is non-empty (false for the empty string)
C15_WebSearchEnabledFlag ==
    Succeeded
    => (result.data.metadata.web_search_enabled
           <=> (include_web_search /\ Truthy(serpapi_key)))

Min(a, b) == IF a <= b THEN a ELSE b

\* C16: data.videos holds only records returned by the video searches of the
\* run (none when videos are disabled, the video key is absent or there is no
\* video query), videos_included = min(total_videos, 15), and a "videos" entry
\* of the LLM's JSON never reaches the result
C16_VideosOnlyFromSearch ==
    Succeeded
    => LET data == result.data IN
       /\ data.videos.kind = "list"
       /\ \A i \in DOMAIN data.videos.items :
             /\ data.videos.items[i].from = "youtube"
             /\ \E j \in DOMAIN all_youtube_videos :
                   all_youtube_videos[j] = data.videos.items[i]
       /\ (~include_videos \/ ~Truthy(youtube_api_key)
               \/ Entries("video_search_queries") = <<>>)
             => data.videos.items = <<>>
       /\ data.metadata.videos_included = Min(data.metadata.total_videos, MaxVideos)

====
